---- MODULE Spec2Model ----
(***************************************************************************)
(* recording-trimmer: the spike-detection core (src/analysis.py).          *)
(* Spec runs single calls of the scans and of analyze_file, MainSpec the   *)
(* batch loop of src/main.py, PairSpec two calls of the scans side by side.*)
(*                                                                         *)
(* Numbers.  Times are kept in tenths of a second (one ebur128 sample),    *)
(* loudness values are integers.  The code's rolling average is            *)
(* win_sum / window_size; the model keeps the exact rational by storing    *)
(* the numerator: rolling_avgs[i] here is window_size times the code's     *)
(* rolling_avgs[i], and sum_before is scaled the same way.  Every          *)
(* comparison of the code is cross-multiplied by the (positive)            *)
(* denominators, so it decides exactly what the code decides over the      *)
(* rationals.  IEEE rounding of the float operations is not modelled.      *)
(*                                                                         *)
(* Python's None is the empty tuple, a present value x is <<x>>.           *)
(* Python indices are 0-based: At(s, i) reads s[i].                        *)
(***************************************************************************)
EXTENDS Integers, Sequences, FiniteSets, TLC

\* analysis.py:46 and :167 (samples_per_sec = 10)
samples_per_sec == 10

\* ---------------------------------------------------------------- bounds
\* length of the freely shaped part of a generated loudness series
TailLen == 30

\* ---------------------------------------------------------------- helpers
None == <<>>
Some(x) == <<x>>
At(s, i) == s[i + 1]
Min(a, b) == IF a < b THEN a ELSE b
Max(a, b) == IF a > b THEN a ELSE b

\* sum(s[lo:hi]) of Python (0-based, hi exclusive), by halving the range
RECURSIVE SumSlice(_, _, _)
SumSlice(s, lo, hi) ==
  IF hi <= lo THEN 0
  ELSE IF hi = lo + 1 THEN At(s, lo)
  ELSE LET mid == (lo + hi) \div 2
       IN SumSlice(s, lo, mid) + SumSlice(s, mid, hi)

\* times = [t for t, _ in data]; vals = [m for _, m in data]
TimesOf(d) == [k \in 1..Len(d) |-> d[k][1]]
ValsOf(d) == [k \in 1..Len(d) |-> d[k][2]]

\* the second cut to tens: int(spike_time / 10)
IntSecond_tens(t) == t \div (10 * samples_per_sec)

\* int(spike_time): the integer second of a time held in tenths
IntSecond(t) == t \div samples_per_sec


\* ------------------------------------------------- candidate confirmation
\* analysis.py:105 / :227  int(round(offset * samples_per_sec)), offset an int
ConfirmOffset(offset) == offset * samples_per_sec

NewCandidate == [confirmed |-> TRUE, status |-> "Pass", pass_count |-> 0,
                 confirm_results |-> <<>>, evaluated |-> 0]

\* the confirm loop with the comparison taken the other way round: an
\* offset whose average equals the candidate's fails
RECURSIVE dynamic_confirm_strict(_, _, _, _, _, _)
dynamic_confirm_strict(ra, i, spike_avg, confirm_seconds, k, c) ==
  IF k > Len(confirm_seconds) THEN c
  ELSE LET confirm_i == i + ConfirmOffset(confirm_seconds[k])
           e == [c EXCEPT !.evaluated = @ + 1]
       IN IF confirm_i >= Len(ra)
          THEN [e EXCEPT !.confirm_results = Append(@, "out of range"),
                         !.confirmed = FALSE, !.status = "Fail"]
          ELSE IF At(ra, confirm_i) <= spike_avg
          THEN [e EXCEPT !.confirm_results = Append(@, "less"),
                         !.confirmed = FALSE, !.status = "Fail"]
          ELSE dynamic_confirm_strict(ra, i, spike_avg, confirm_seconds, k + 1,
                 [e EXCEPT !.confirm_results = Append(@, "ok"),
                           !.pass_count = @ + 1])

\* analysis.py:104-118, the confirm loop of analyze_file_dynamic_scan from
\* the k-th offset on; `evaluated` counts the loop bodies entered
RECURSIVE dynamic_confirm(_, _, _, _, _, _)
dynamic_confirm(ra, i, spike_avg, confirm_seconds, k, c) ==
  IF k > Len(confirm_seconds) THEN c
  ELSE LET confirm_i == i + ConfirmOffset(confirm_seconds[k])
           e == [c EXCEPT !.evaluated = @ + 1]
       IN IF confirm_i >= Len(ra)
          THEN [e EXCEPT !.confirm_results = Append(@, "out of range"),
                         !.confirmed = FALSE, !.status = "Fail"]
          ELSE IF At(ra, confirm_i) < spike_avg
          THEN [e EXCEPT !.confirm_results = Append(@, "less"),
                         !.confirmed = FALSE, !.status = "Fail"]
          ELSE dynamic_confirm(ra, i, spike_avg, confirm_seconds, k + 1,
                 [e EXCEPT !.confirm_results = Append(@, "ok"),
                           !.pass_count = @ + 1])

\* the confirm loop without its break statements: a failing offset marks
\* the candidate Fail and the loop goes on to the next offset
RECURSIVE fixed_confirm_nobreak(_, _, _, _, _, _)
fixed_confirm_nobreak(ra, i, spike_avg, confirm_seconds, k, c) ==
  IF k > Len(confirm_seconds) THEN c
  ELSE LET confirm_i == i + ConfirmOffset(confirm_seconds[k])
           e == [c EXCEPT !.evaluated = @ + 1]
       IN IF confirm_i >= Len(ra)
          THEN fixed_confirm_nobreak(ra, i, spike_avg, confirm_seconds, k + 1,
                 [e EXCEPT !.confirm_results = Append(@, "out of range"),
                           !.confirmed = FALSE, !.status = "Fail"])
          ELSE IF At(ra, confirm_i) < spike_avg
          THEN fixed_confirm_nobreak(ra, i, spike_avg, confirm_seconds, k + 1,
                 [e EXCEPT !.confirm_results = Append(@, "less"),
                           !.confirmed = FALSE, !.status = "Fail"])
          ELSE fixed_confirm_nobreak(ra, i, spike_avg, confirm_seconds, k + 1,
                 [e EXCEPT !.confirm_results = Append(@, "ok"),
                           !.pass_count = @ + 1])

\* analysis.py:226-240, the confirm loop of analyze_file_fixed_end
RECURSIVE fixed_confirm(_, _, _, _, _, _)
fixed_confirm(ra, i, spike_avg, confirm_seconds, k, c) ==
  IF k > Len(confirm_seconds) THEN c
  ELSE LET confirm_i == i + ConfirmOffset(confirm_seconds[k])
           e == [c EXCEPT !.evaluated = @ + 1]
       IN IF confirm_i >= Len(ra)
          THEN [e EXCEPT !.confirm_results = Append(@, "out of range"),
                         !.confirmed = FALSE, !.status = "Fail"]
          ELSE IF At(ra, confirm_i) < spike_avg
          THEN [e EXCEPT !.confirm_results = Append(@, "less"),
                         !.confirmed = FALSE, !.status = "Fail"]
          ELSE fixed_confirm(ra, i, spike_avg, confirm_seconds, k + 1,
                 [e EXCEPT !.confirm_results = Append(@, "ok"),
                           !.pass_count = @ + 1])

\* analysis.py:94-97  spike_avg > avg_before + loudness_threshold, where
\* avg_before is sum_before / count_before, or float('-inf') without a
\* baseline: every finite spike_avg is greater than -inf + threshold
dynamic_is_spike(spike_avg, sb, cb, loudness_threshold, window_size) ==
  IF cb > 0
  THEN spike_avg * cb > sb + loudness_threshold * window_size * cb
  ELSE TRUE

\* the tail comparison with >= in place of >
fixed_is_spike_or_equal(spike_avg, sl, cl, loudness_threshold, window_size) ==
  IF cl > 0
  THEN spike_avg * cl >= sl * window_size + loudness_threshold * window_size * cl
  ELSE TRUE

\* the tail comparison made only when a lecture part exists
fixed_is_spike_needs_lecture(spike_avg, sl, cl, loudness_threshold, window_size) ==
  /\ cl > 0
  /\ spike_avg * cl > sl * window_size + loudness_threshold * window_size * cl

\* analysis.py:181 and :219  spike_avg > lecture_avg + loudness_threshold
fixed_is_spike(spike_avg, sl, cl, loudness_threshold, window_size) ==
  IF cl > 0
  THEN spike_avg * cl > sl * window_size + loudness_threshold * window_size * cl
  ELSE TRUE

\* analysis.py:127  'pass_val': the number, or the string '-inf'
dynamic_pass_val(sb, cb, loudness_threshold, window_size) ==
  IF cb > 0
  THEN [kind |-> "float", num |-> sb + loudness_threshold * window_size * cb,
        den |-> window_size * cb]
  ELSE [kind |-> "str", num |-> 0, den |-> 1]

\* analysis.py:249  'pass_val': lecture_avg + loudness_threshold (a float,
\* -inf when there is no lecture part)
fixed_pass_val(sl, cl, loudness_threshold) ==
  IF cl > 0
  THEN [kind |-> "float", num |-> sl + loudness_threshold * cl, den |-> cl]
  ELSE [kind |-> "float-inf", num |-> 0, den |-> 1]

\* ------------------------------------------------------------- log_buffer
\* analysis.py:23  max(buffer, key=pass_count): the first maximal element
BestFail(buf) ==
  buf[CHOOSE k \in 1..Len(buf) :
        /\ \A j \in 1..Len(buf) : buf[j].pass_count <= buf[k].pass_count
        /\ \A j \in 1..(k - 1) : buf[j].pass_count < buf[k].pass_count]

\* analysis.py:24-28 and :31-35: the line logged for a buffer entry
FailLine(item) == [fmt |-> "best_fail", status |-> "Fail",
                   time |-> IntSecond(item.time) * samples_per_sec,
                   spike_avg |-> item.spike_avg,
                   pass_count |-> item.pass_count,
                   confirm_results |-> item.confirm_results]
ItemLine(item) == [fmt |-> "item", status |-> item.status,
                   time |-> item.time,
                   spike_avg |-> item.spike_avg,
                   pass_count |-> item.pass_count,
                   confirm_results |-> item.confirm_results]

\* f"{pass_val:.2f}" raises ValueError when pass_val is the string '-inf'
Formats(item) == item.pass_val.kind # "str"

\* analysis.py:17-35  log_buffer: the lines it logs, and whether building
\* a line raised (the lines before it are already logged)
log_buffer(buf, confirmed) ==
  IF buf = <<>> THEN [lines |-> <<>>, raised |-> FALSE]
  ELSE IF (\A k \in 1..Len(buf) : buf[k].status = "Fail") /\ ~confirmed
  THEN LET best_fail == BestFail(buf)
       IN IF Formats(best_fail)
          THEN [lines |-> <<FailLine(best_fail)>>, raised |-> FALSE]
          ELSE [lines |-> <<>>, raised |-> TRUE]
  ELSE LET bad == {k \in 1..Len(buf) : ~Formats(buf[k])}
           n == IF bad = {} THEN Len(buf)
                ELSE (CHOOSE k \in bad : \A j \in bad : k <= j) - 1
       IN [lines |-> [k \in 1..n |-> ItemLine(buf[k])], raised |-> bad # {}]


\* ------------------------------------------------------ loudness series
\* A loudness series, data: List[Tuple[float, float]] (c_io.py:165-173), is
\* held by its description: n samples, sample k (0-based) at time t0 + k
\* tenths, loudness a before index j1, b from j1 to j2 - 1, c from j2 to
\* j3 - 1, d from j3 on.
DataLen(d) == d.n
DataTime(d, k) == d.t0 + k
DataVal(d, k) ==
  IF k < d.j1 THEN d.a ELSE IF k < d.j2 THEN d.b ELSE IF k < d.j3 THEN d.c ELSE d.d
DataSeq(d) == [k \in 1..d.n |-> <<DataTime(d, k - 1), DataVal(d, k - 1)>>]
DataVals(d, lo, hi) == [k \in 1..(hi - lo) |-> DataVal(d, lo + k - 1)]

Series(n, t0, j, v) ==
  [n |-> n, t0 |-> t0, j1 |-> j[1], j2 |-> j[2], j3 |-> j[3],
   a |-> v[1], b |-> v[2], c |-> v[3], d |-> v[4]]
\* the series d after `lead` more samples of its first level, from time t0
Led(d, lead, t0) ==
  [d EXCEPT !.n = @ + lead, !.t0 = t0,
            !.j1 = @ + lead, !.j2 = @ + lead, !.j3 = @ + lead]

VARIABLES
  pc,               \* position in the call
  caller,           \* "direct" or "analyze_file"
  data,             \* the loudness series
  duration,         \* get_duration's value, in tenths of a second
  scan,             \* the scan entered: "dynamic" or "fixed"
  tier,             \* the tier analyze_file chose
  params,           \* the scan's parameters
  args,             \* the argparse namespace analyze_file was given
  analysis_start, sum_lecture, count_lecture, end_part,
  rolling_avgs, win_sum, min_start_sample,
  i, sum_before, count_before, buffer, current_second, trim_time,
  trail,            \* the lines logged by log_buffer, in order
  cands,            \* every candidate appended to buffer, in order
  ret,              \* (error_str, trim_time) a scan returned
  result,           \* (error_str, trim_time, duration) of analyze_file
  batch,            \* main's args.trim, trim_min_*, on_conflict; None outside main
  files,            \* the files main's loop has not reached yet
  file,             \* the file of the current loop iteration
  all_files,        \* main's report list
  fs,               \* the output paths that exist
  trims,            \* the trim_file calls made, in order
  other             \* the locals of a second call that is not running now

vars == <<pc, caller, data, duration, scan, tier, params, args, analysis_start,
          sum_lecture, count_lecture, end_part, rolling_avgs, win_sum,
          min_start_sample, i, sum_before, count_before, buffer,
          current_second, trim_time, trail, cands, ret, result,
          batch, files, file, all_files, fs, trims, other>>

scan_vars == <<analysis_start, sum_lecture, count_lecture, end_part,
               rolling_avgs, win_sum, min_start_sample, i, sum_before,
               count_before, buffer, current_second, trim_time, trail, cands>>
main_vars == <<batch, files, file, all_files, fs, trims>>
call_vars == <<caller, data, duration, scan, tier, params, args, main_vars, other>>

NoParams == [loudness_threshold |-> 0, window_size |-> 0,
             confirm_seconds |-> <<>>, skip_mins |-> 0, analysis_minutes |-> 0]

\* no call is running: the locals of both scans and of analyze_file
NoCall ==
  /\ caller = "none"
  /\ data = Series(0, 0, <<0, 0, 0>>, <<0, 0, 0, 0>>) /\ duration = 0
  /\ scan = "none" /\ tier = "none" /\ params = NoParams /\ args = None
  /\ analysis_start = 0 /\ sum_lecture = 0 /\ count_lecture = 0
  /\ end_part = <<>>
  /\ rolling_avgs = <<>> /\ win_sum = 0 /\ min_start_sample = 0
  /\ i = 0 /\ sum_before = 0 /\ count_before = 0
  /\ buffer = <<>> /\ current_second = None /\ trim_time = None
  /\ trail = <<>> /\ cands = <<>>
  /\ ret = None /\ result = None

Init ==
  /\ pc = "idle" /\ NoCall
  /\ batch = None /\ files = <<>> /\ file = None
  /\ all_files = <<>> /\ fs = {} /\ trims = <<>>
  /\ other = None

\* the window check letting through a window as long as the series
invalid_window_size_beyond(window_size, n) == window_size <= 0 \/ window_size > n

\* analysis.py:47 and :195  window_size <= 0 or window_size >= len(...)
invalid_window_size(window_size, n) == window_size <= 0 \/ window_size >= n

\* -------------------------------------------- analyze_file_dynamic_scan
\* analysis.py:46-64: window check, then the first window
dynamic_entry ==
  /\ pc = "dynamic_entry"
  /\ LET window_size == params.window_size
         total_windows == DataLen(data) - window_size + 1
     IN IF invalid_window_size(window_size, DataLen(data))
        THEN /\ ret' = <<Some("invalid window_size"), None>>
             /\ pc' = "returned"
             /\ UNCHANGED <<rolling_avgs, win_sum, i>>
        ELSE IF total_windows <= 0
        THEN /\ ret' = <<Some("not enough samples"), None>>
             /\ pc' = "returned"
             /\ UNCHANGED <<rolling_avgs, win_sum, i>>
        ELSE /\ win_sum' = SumSlice(DataVals(data, 0, window_size), 0, window_size)
             /\ rolling_avgs' = <<win_sum'>>
             /\ i' = 1
             /\ pc' = "dynamic_roll"
             /\ UNCHANGED ret
  /\ UNCHANGED <<call_vars, analysis_start, sum_lecture, count_lecture,
                 end_part, min_start_sample, sum_before, count_before,
                 buffer, current_second, trim_time, trail, cands, result>>

\* the sliding sum dropping the wrong sample: vals[i] instead of vals[i - 1]
dynamic_roll_step_off_by_one ==
  /\ pc = "dynamic_roll"
  /\ i < DataLen(data) - params.window_size + 1
  /\ win_sum' = win_sum + DataVal(data, i + params.window_size - 1)
                        - DataVal(data, i)
  /\ rolling_avgs' = Append(rolling_avgs, win_sum')
  /\ i' = i + 1
  /\ UNCHANGED <<pc, call_vars, analysis_start, sum_lecture, count_lecture,
                 end_part, min_start_sample, sum_before, count_before,
                 buffer, current_second, trim_time, trail, cands, ret, result>>

\* analysis.py:65-67: one iteration of the sliding-sum loop
dynamic_roll_step ==
  /\ pc = "dynamic_roll"
  /\ i < DataLen(data) - params.window_size + 1
  /\ win_sum' = win_sum + DataVal(data, i + params.window_size - 1)
                        - DataVal(data, i - 1)
  /\ rolling_avgs' = Append(rolling_avgs, win_sum')
  /\ i' = i + 1
  /\ UNCHANGED <<pc, call_vars, analysis_start, sum_lecture, count_lecture,
                 end_part, min_start_sample, sum_before, count_before,
                 buffer, current_second, trim_time, trail, cands, ret, result>>

\* the skip start index counted in seconds instead of samples
MinStartSample_seconds(skip_mins) == skip_mins * 60

\* analysis.py:72  int(skip_mins * 60 * samples_per_sec)
MinStartSample(skip_mins) == skip_mins * 60 * samples_per_sec

\* the skip check letting through a start index equal to the array length
skip_exceeds_beyond(mss, n) == mss > n

\* analysis.py:74  min_start_sample >= len(rolling_avgs)
skip_exceeds(mss, n) == mss >= n

\* the seed leaving the skipped averages out of the sum
SeedSum_empty(ra, mss) == 0

\* analysis.py:80  sum(rolling_avgs[0:min_start_sample]) if
\* min_start_sample > 0 else 0.0
SeedSum(ra, mss) == IF mss > 0 THEN SumSlice(ra, 0, mss) ELSE 0

\* analysis.py:68-85: the scan's starting point and the seeded baseline
dynamic_scan_init ==
  /\ pc = "dynamic_roll"
  /\ i >= DataLen(data) - params.window_size + 1
  /\ LET mss == MinStartSample(params.skip_mins)
     IN /\ min_start_sample' = mss
        /\ IF skip_exceeds(mss, Len(rolling_avgs))
           THEN /\ ret' = <<Some("skip exceeds file duration"), None>>
                /\ pc' = "returned"
                /\ UNCHANGED <<i, sum_before, count_before>>
           ELSE /\ sum_before' = SeedSum(rolling_avgs, mss)
                /\ count_before' = mss
                /\ i' = mss
                /\ pc' = "dynamic_scan"
                /\ UNCHANGED ret
  /\ trim_time' = None /\ buffer' = <<>> /\ current_second' = None
  /\ UNCHANGED <<call_vars, analysis_start, sum_lecture, count_lecture,
                 end_part, rolling_avgs, win_sum, trail, cands, result>>

\* analysis.py:88-146: one iteration of the scan loop
dynamic_scan_step ==
  /\ pc = "dynamic_scan"
  /\ i < Len(rolling_avgs) /\ trim_time = None
  /\ LET spike_time == DataTime(data, i)
         spike_second == IntSecond(spike_time)
         spike_avg == At(rolling_avgs, i)
         is_spike == dynamic_is_spike(spike_avg, sum_before, count_before,
                        params.loudness_threshold, params.window_size)
         c == dynamic_confirm(rolling_avgs, i, spike_avg,
                              params.confirm_seconds, 1, NewCandidate)
         entry == [status |-> c.status, time |-> spike_time,
                   spike_avg |-> spike_avg,
                   confirm_results |-> c.confirm_results,
                   pass_val |-> dynamic_pass_val(sum_before, count_before,
                        params.loudness_threshold, params.window_size),
                   pass_count |-> c.pass_count]
         appended == Append(buffer, entry)
         rollover == Some(spike_second) # current_second
         log1 == IF rollover THEN log_buffer(buffer, FALSE)
                 ELSE [lines |-> <<>>, raised |-> FALSE]
         kept == IF rollover THEN <<entry>> ELSE appended
         log2 == log_buffer(kept, TRUE)
     IN IF ~is_spike
        THEN /\ sum_before' = sum_before + spike_avg
             /\ count_before' = count_before + 1
             /\ i' = i + 1
             /\ UNCHANGED <<pc, buffer, current_second, trim_time, trail, cands>>
        ELSE /\ cands' = Append(cands, [index |-> i, status |-> c.status,
                             pass_count |-> c.pass_count,
                             evaluated |-> c.evaluated,
                             confirm_results |-> c.confirm_results,
                             time |-> spike_time,
                             count_before |-> count_before])
             /\ IF log1.raised
                THEN /\ trail' = trail \o log1.lines
                     /\ buffer' = appended
                     /\ pc' = "raised"
                     /\ UNCHANGED <<current_second, trim_time, sum_before,
                                    count_before, i>>
                ELSE IF c.confirmed
                THEN /\ trail' = trail \o log1.lines \o log2.lines
                     /\ current_second' = IF rollover THEN Some(spike_second)
                                          ELSE current_second
                     /\ IF log2.raised
                        THEN /\ buffer' = kept
                             /\ pc' = "raised"
                             /\ UNCHANGED trim_time
                        ELSE /\ buffer' = <<>>
                             /\ trim_time' = Some(spike_time)
                             /\ UNCHANGED pc
                     /\ UNCHANGED <<sum_before, count_before, i>>
                ELSE /\ trail' = trail \o log1.lines
                     /\ buffer' = kept
                     /\ current_second' = IF rollover THEN Some(spike_second)
                                          ELSE current_second
                     /\ sum_before' = sum_before + spike_avg
                     /\ count_before' = count_before + 1
                     /\ i' = i + 1
                     /\ UNCHANGED <<pc, trim_time>>
  /\ UNCHANGED <<call_vars, analysis_start, sum_lecture, count_lecture,
                 end_part, rolling_avgs, win_sum, min_start_sample, ret, result>>

\* analysis.py:148-155: the closing flush and the return
dynamic_scan_finish ==
  /\ pc = "dynamic_scan"
  /\ i >= Len(rolling_avgs) \/ trim_time # None
  /\ LET log == log_buffer(buffer, FALSE)
     IN /\ trail' = trail \o log.lines
        /\ IF log.raised
           THEN pc' = "raised" /\ UNCHANGED ret
           ELSE pc' = "returned" /\ ret' = <<None, trim_time>>
  /\ UNCHANGED <<call_vars, analysis_start, sum_lecture, count_lecture, end_part,
                 rolling_avgs, win_sum, min_start_sample, i, sum_before,
                 count_before, buffer, current_second, trim_time, cands, result>>


\* ----------------------------------------------- analyze_file_fixed_end
\* analysis_start without the clamp at 0
AnalysisStart_unclamped(dur, analysis_minutes) ==
  dur - analysis_minutes * 60 * samples_per_sec

\* analysis.py:168  max(0.0, duration - (analysis_minutes * 60.0)), tenths
AnalysisStart(dur, analysis_minutes) ==
  Max(0, dur - analysis_minutes * 60 * samples_per_sec)

\* analysis.py:171-179: the partition loop over data
InLecture(p, start) == p[1] < start
LecturePart(d, start) == SelectSeq(DataSeq(d), LAMBDA p : InLecture(p, start))
EndPart(d, start) == SelectSeq(DataSeq(d), LAMBDA p : ~InLecture(p, start))

\* analysis.py:167-203: partition, lecture average, checks, first window
fixed_entry ==
  /\ pc = "fixed_entry"
  /\ LET window_size == params.window_size
         start == AnalysisStart(duration, params.analysis_minutes)
         lecture == LecturePart(data, start)
         tail == EndPart(data, start)
         end_ms == ValsOf(tail)
     IN /\ analysis_start' = start
        /\ sum_lecture' = SumSlice(ValsOf(lecture), 0, Len(lecture))
        /\ count_lecture' = Len(lecture)
        /\ end_part' = tail
        /\ IF tail = <<>>
           THEN /\ ret' = <<Some("No end part data"), None>>
                /\ pc' = "returned"
                /\ UNCHANGED <<rolling_avgs, win_sum, i>>
           ELSE IF invalid_window_size(window_size, Len(end_ms))
           THEN /\ ret' = <<Some("invalid window_size"), None>>
                /\ pc' = "returned"
                /\ UNCHANGED <<rolling_avgs, win_sum, i>>
           ELSE /\ win_sum' = SumSlice(end_ms, 0, window_size)
                /\ rolling_avgs' = <<win_sum'>>
                /\ i' = 1
                /\ pc' = "fixed_roll"
                /\ UNCHANGED ret
  /\ UNCHANGED <<call_vars, min_start_sample, sum_before, count_before,
                 buffer, current_second, trim_time, trail, cands, result>>

\* analysis.py:204-206: one iteration of the sliding-sum loop
fixed_roll_step ==
  /\ pc = "fixed_roll"
  /\ i < Len(end_part) - params.window_size + 1
  /\ win_sum' = win_sum + At(end_part, i + params.window_size - 1)[2]
                        - At(end_part, i - 1)[2]
  /\ rolling_avgs' = Append(rolling_avgs, win_sum')
  /\ i' = i + 1
  /\ UNCHANGED <<pc, call_vars, analysis_start, sum_lecture, count_lecture,
                 end_part, min_start_sample, sum_before, count_before,
                 buffer, current_second, trim_time, trail, cands, ret, result>>

\* analysis.py:207-213: the walk starts at the first tail window
fixed_scan_init ==
  /\ pc = "fixed_roll"
  /\ i >= Len(end_part) - params.window_size + 1
  /\ i' = 0 /\ trim_time' = None /\ buffer' = <<>> /\ current_second' = None
  /\ pc' = "fixed_scan"
  /\ UNCHANGED <<call_vars, analysis_start, sum_lecture, count_lecture,
                 end_part, rolling_avgs, win_sum, min_start_sample,
                 sum_before, count_before, trail, cands, ret, result>>

\* analysis.py:214-264: one iteration of the walk over the tail
fixed_scan_step ==
  /\ pc = "fixed_scan"
  /\ i < Len(rolling_avgs) /\ trim_time = None
  /\ LET spike_time == At(end_part, i)[1]
         spike_second == IntSecond(spike_time)
         spike_avg == At(rolling_avgs, i)
         is_spike == fixed_is_spike(spike_avg, sum_lecture, count_lecture,
                        params.loudness_threshold, params.window_size)
         c == fixed_confirm(rolling_avgs, i, spike_avg,
                            params.confirm_seconds, 1, NewCandidate)
         entry == [status |-> c.status, time |-> spike_time,
                   spike_avg |-> spike_avg,
                   confirm_results |-> c.confirm_results,
                   pass_val |-> fixed_pass_val(sum_lecture, count_lecture,
                                               params.loudness_threshold),
                   pass_count |-> c.pass_count]
         appended == Append(buffer, entry)
         rollover == Some(spike_second) # current_second
         log1 == IF rollover THEN log_buffer(buffer, FALSE)
                 ELSE [lines |-> <<>>, raised |-> FALSE]
         kept == IF rollover THEN <<entry>> ELSE appended
         log2 == log_buffer(kept, TRUE)
     IN IF ~is_spike
        THEN /\ i' = i + 1
             /\ UNCHANGED <<pc, buffer, current_second, trim_time, trail, cands>>
        ELSE /\ cands' = Append(cands, [index |-> i, status |-> c.status,
                             pass_count |-> c.pass_count,
                             evaluated |-> c.evaluated,
                             confirm_results |-> c.confirm_results,
                             time |-> spike_time,
                             count_before |-> count_lecture])
             /\ IF log1.raised
                THEN /\ trail' = trail \o log1.lines
                     /\ buffer' = appended
                     /\ pc' = "raised"
                     /\ UNCHANGED <<current_second, trim_time, i>>
                ELSE IF c.confirmed
                THEN /\ trail' = trail \o log1.lines \o log2.lines
                     /\ current_second' = IF rollover THEN Some(spike_second)
                                          ELSE current_second
                     /\ IF log2.raised
                        THEN /\ buffer' = kept
                             /\ pc' = "raised"
                             /\ UNCHANGED trim_time
                        ELSE /\ buffer' = <<>>
                             /\ trim_time' = Some(spike_time)
                             /\ UNCHANGED pc
                     /\ UNCHANGED i
                ELSE /\ trail' = trail \o log1.lines
                     /\ buffer' = kept
                     /\ current_second' = IF rollover THEN Some(spike_second)
                                          ELSE current_second
                     /\ i' = i + 1
                     /\ UNCHANGED <<pc, trim_time>>
  /\ UNCHANGED <<call_vars, analysis_start, sum_lecture, count_lecture,
                 end_part, rolling_avgs, win_sum, min_start_sample,
                 sum_before, count_before, ret, result>>

\* analysis.py:266-273: the closing flush and the return
fixed_scan_finish ==
  /\ pc = "fixed_scan"
  /\ i >= Len(rolling_avgs) \/ trim_time # None
  /\ LET log == log_buffer(buffer, FALSE)
     IN /\ trail' = trail \o log.lines
        /\ IF log.raised
           THEN pc' = "raised" /\ UNCHANGED ret
           ELSE pc' = "returned" /\ ret' = <<None, trim_time>>
  /\ UNCHANGED <<call_vars, analysis_start, sum_lecture, count_lecture,
                 end_part, rolling_avgs, win_sum, min_start_sample, i,
                 sum_before, count_before, buffer, current_second,
                 trim_time, cands, result>>


\* ----------------------------------------------------------------- inputs
Levels == {-30, -20, -10}
\* the flat first minute of a series longer than skip_mins = 1
Lead == 60 * samples_per_sec
Jumps == {k \in 1..(TailLen - 1) : k % 6 = 0}

\* series of TailLen samples from time 0: flat, one step, a pulse followed
\* by a third level, or a pulse that falls back before a last step
Shapes ==
  LET n == TailLen
      L2 == {x \in Levels \X Levels : x[1] # x[2]}
      L3 == {x \in Levels \X Levels \X Levels : x[1] # x[2] /\ x[2] # x[3]}
      J2 == {x \in Jumps \X Jumps : x[1] < x[2]}
      J3 == {x \in Jumps \X Jumps \X Jumps : x[1] < x[2] /\ x[2] < x[3]}
  IN {Series(n, 0, <<n, n, n>>, <<a, a, a, a>>) : a \in Levels}
     \cup {Series(n, 0, <<j, n, n>>, <<v[1], v[2], v[2], v[2]>>) :
             j \in Jumps, v \in L2}
     \cup {Series(n, 0, <<j[1], j[2], n>>, <<v[1], v[2], v[3], v[3]>>) :
             j \in J2, v \in L3}
     \cup {Series(n, 0, j, <<v[1], v[2], v[1], v[3]>>) :
             j \in J3, v \in {x \in L3 : x[3] # x[1]}}

Thresholds == {5, 12}
ConfirmLists == {<<1>>, <<1, 2>>}

DynParams(w, thr, conf, skip) ==
  [loudness_threshold |-> thr, window_size |-> w, confirm_seconds |-> conf,
   skip_mins |-> skip, analysis_minutes |-> 0]
FixParams(w, thr, conf, am) ==
  [loudness_threshold |-> thr, window_size |-> w, confirm_seconds |-> conf,
   skip_mins |-> 0, analysis_minutes |-> am]

\* spec.md, end-to-end example 1: 100 samples, -30 up to sample 59 and -10
\* from sample 60, threshold 12, window 5, confirm offsets [1, 2], skip 0
Ex1Data == Series(100, 0, <<60, 100, 100>>, <<-30, -10, -10, -10>>)
Ex1Params == DynParams(5, 12, <<1, 2>>, 0)

\* spec.md, end-to-end example 3: 4000 samples over 400 s, -35 up to 350 s
\* and -15 from there, analysis window 1 minute, threshold 10; the window
\* size and the confirm offsets are the defaults of analysis.py:159-160
Ex3Data == Series(4000, 0, <<3500, 4000, 4000>>, <<-35, -15, -15, -15>>)
Ex3Duration == 400 * samples_per_sec
Ex3Params == FixParams(50, 10, <<5, 10>>, 1)

\* spec.md, per-second dedup: three Fail candidates in one integer second
\* with pass-counts 0, 2, 1.  After a flat first minute at -30 the samples
\* 606..627 are at -14 except sample 616; window 1, offsets [1, 2, 3]; the
\* second 60 holds the samples 599..608
DedupData == Series(628, 1, <<606, 616, 617>>, <<-30, -14, -30, -14>>)
DedupParams == DynParams(1, 12, <<1, 2, 3>>, 1)

\* a series with a loud pulse inside the skipped first minute (samples
\* 300..305) and a lasting step after it
EarlyPulseData == Series(Lead + TailLen, 0, <<300, 306, Lead + 6>>, <<-30, -10, -30, -10>>)
EarlyPulseParams == DynParams(3, 12, <<1>>, 1)

\* direct calls of the dynamic scan: short series with any parameters,
\* series longer than the skipped first minute, and flat series whose
\* rolling averages end one past, or exactly at, the skip start index
DynamicCalls ==
  {<<d, DynParams(w, thr, conf, skip)>> :
      d \in Shapes, w \in {-1, 0, 3, TailLen}, thr \in Thresholds,
      conf \in ConfirmLists, skip \in {0, 1}}
  \cup {<<Led(d, Lead, 0), DynParams(3, 12, conf, 1)>> :
      d \in Shapes, conf \in ConfirmLists}
  \cup {<<Led(d, Lead, 0), DynParams(w, 12, <<1>>, 1)>> :
      d \in {x \in Shapes : x.j1 = x.n}, w \in {TailLen, TailLen + 1}}
  \cup {<<Ex1Data, Ex1Params>>, <<DedupData, DedupParams>>,
        <<EarlyPulseData, EarlyPulseParams>>}

\* direct calls of the fixed-end scan on a 100 s file whose samples end at
\* its end; the first LectLen samples lie before analysis_start
FixDuration == 100 * samples_per_sec
\* a file shorter than the analysis window of one minute
ShortDuration == 30 * samples_per_sec
FixedCalls ==
  {<<Led(d, lect, 400 - lect), FixDuration, FixParams(w, thr, conf, 1)>> :
      d \in Shapes, lect \in {0, 6}, w \in {-1, 0, 3, TailLen},
      thr \in Thresholds,
      conf \in ConfirmLists}
  \cup {<<Led(d, 0, ShortDuration - TailLen), ShortDuration,
           FixParams(3, 12, <<1>>, 1)>> : d \in {x \in Shapes : x.j2 = x.n}}
  \cup {<<Ex3Data, Ex3Duration, Ex3Params>>}

\* positive_int letting 0 through (iv < 0 in place of iv < 1)
positive_int_or_zero(v) == v >= 0

\* config.py:98-106  positive_int: the value argparse accepts
positive_int(v) == v >= 1

\* config.py:63-84  validate_confirm_sec: positive, strictly increasing
validate_confirm_sec(l) ==
  /\ \A k \in 1..Len(l) : l[k] >= 1
  /\ \A k \in 1..(Len(l) - 1) : l[k] < l[k + 1]

\* the last check with >= in place of >
validate_thresholds_no_gap(a) ==
  /\ a.short_file_thresh_mins >= Min(a.short_skip_mins * 3, 10)
  /\ a.med_file_thresh_mins >= Min(a.med_skip_mins * 3, 10)
  /\ a.short_file_thresh_mins < a.med_file_thresh_mins
  /\ a.med_file_thresh_mins >= a.long_analysis_mins + 10

\* config.py:33-60  validate_thresholds: TRUE when no parser.error is raised
validate_thresholds(a) ==
  /\ a.short_file_thresh_mins >= Min(a.short_skip_mins * 3, 10)
  /\ a.med_file_thresh_mins >= Min(a.med_skip_mins * 3, 10)
  /\ a.short_file_thresh_mins < a.med_file_thresh_mins
  /\ a.med_file_thresh_mins > a.long_analysis_mins + 10

\* config.py:205-253: the namespaces parse_and_validate_args can return,
\* among a few command lines
ArgsSet ==
  {a \in [short_file_thresh_mins : {3, 12}, med_file_thresh_mins : {12},
          short_loud_thresh_db : {12}, med_loud_thresh_db : {5},
          long_loud_thresh_db : {8},
          short_win_size_sec : {1}, med_win_size_sec : {2},
          long_win_size_sec : {1},
          short_confirm_secs : {<<1>>}, med_confirm_secs : {<<1, 2>>},
          long_confirm_secs : {<<1>>, <<0>>},
          short_skip_mins : {0, 1}, med_skip_mins : {1},
          long_analysis_mins : {1, 2}] :
     /\ positive_int(a.short_file_thresh_mins)
     /\ positive_int(a.med_file_thresh_mins)
     /\ positive_int(a.short_loud_thresh_db)
     /\ positive_int(a.med_loud_thresh_db)
     /\ positive_int(a.long_loud_thresh_db)
     /\ positive_int(a.short_win_size_sec)
     /\ positive_int(a.med_win_size_sec)
     /\ positive_int(a.long_win_size_sec)
     /\ positive_int(a.short_skip_mins)
     /\ positive_int(a.med_skip_mins)
     /\ positive_int(a.long_analysis_mins)
     /\ validate_confirm_sec(a.short_confirm_secs)
     /\ validate_confirm_sec(a.med_confirm_secs)
     /\ validate_confirm_sec(a.long_confirm_secs)
     /\ validate_thresholds(a)}

\* the series of the files: none, a series longer than the skipped minute
\* from time 0, or the last samples of a 12-minute file
NoData == Series(0, 0, <<0, 0, 0>>, <<0, 0, 0, 0>>)
OneStep == {d \in Shapes : d.j2 = d.n}
FileData ==
  {NoData} \cup {Led(d, Lead, 0) : d \in OneStep}
  \cup {Led(d, 6, 6594) : d \in OneStep}
FileDurations == {630, 1799, 1800, 7199, 7200, 7230}

\* the files analyze_file is called on: what the two extractions do
FileCalls ==
  {<<"raise", 0, "ok", NoData, a>> : a \in ArgsSet}
  \cup {<<"ok", dur, "raise", NoData, a>> : dur \in {630}, a \in ArgsSet}
  \cup {<<"ok", dur, "ok", d, a>> :
          dur \in FileDurations, d \in FileData, a \in ArgsSet}

\* ------------------------------------------------------------ analyze_file
\* the tiers with closed upper bounds, as the command-line help words them
TierOf_closed(dur, a) ==
  IF dur <= a.short_file_thresh_mins * 60 * samples_per_sec THEN "short"
  ELSE IF dur <= a.med_file_thresh_mins * 60 * samples_per_sec THEN "medium"
  ELSE "long"

\* analysis.py:301-309: the tier of a duration (tenths of a second)
TierOf(dur, a) ==
  IF dur < a.short_file_thresh_mins * 60 * samples_per_sec THEN "short"
  ELSE IF dur < a.med_file_thresh_mins * 60 * samples_per_sec THEN "medium"
  ELSE "long"

\* analysis.py:303, :306, :309: the arguments handed to the scan of a tier
ScanOf(t) == IF t = "long" THEN "fixed" ELSE "dynamic"
ParamsOf(t, a) ==
  IF t = "short"
  THEN [loudness_threshold |-> a.short_loud_thresh_db,
        window_size |-> a.short_win_size_sec * 10,
        confirm_seconds |-> a.short_confirm_secs,
        skip_mins |-> a.short_skip_mins, analysis_minutes |-> 0]
  ELSE IF t = "medium"
  THEN [loudness_threshold |-> a.med_loud_thresh_db,
        window_size |-> a.med_win_size_sec * 10,
        confirm_seconds |-> a.med_confirm_secs,
        skip_mins |-> a.med_skip_mins, analysis_minutes |-> 0]
  ELSE [loudness_threshold |-> a.long_loud_thresh_db,
        window_size |-> a.long_win_size_sec * 10,
        confirm_seconds |-> a.long_confirm_secs,
        skip_mins |-> 0, analysis_minutes |-> a.long_analysis_mins]

\* the result for an empty series with the duration dropped
NoDataResult_zero(dur) == <<Some("No loudness data"), None, 0>>

\* analysis.py:295-298  return msg, None, duration
NoDataResult(dur) == <<Some("No loudness data"), None, dur>>

\* analysis.py:276-309: both extractions, the empty-data check, the dispatch.
\* dur_outcome and loud_outcome say whether get_duration and
\* get_loudness_data return or raise one of the four caught exceptions.
analyze_file_call(dur_outcome, dur, loud_outcome, d, a) ==
  /\ caller' = "analyze_file" /\ args' = Some(a)
  /\ IF dur_outcome = "raise"
     THEN /\ result' = <<Some("Error getting duration"), None, 0>>
          /\ pc' = "done"
          /\ UNCHANGED <<data, duration, scan, tier, params>>
     ELSE /\ duration' = dur
          /\ IF loud_outcome = "raise"
             THEN /\ result' = <<Some("Error getting loudness"), None, 0>>
                  /\ pc' = "done"
                  /\ UNCHANGED <<data, scan, tier, params>>
             ELSE /\ data' = d
                  /\ IF DataLen(d) = 0
                     THEN /\ result' = NoDataResult(dur)
                          /\ pc' = "done"
                          /\ UNCHANGED <<scan, tier, params>>
                     ELSE /\ tier' = TierOf(dur, a)
                          /\ scan' = ScanOf(tier')
                          /\ params' = ParamsOf(tier', a)
                          /\ pc' = IF scan' = "fixed" THEN "fixed_entry"
                                   ELSE "dynamic_entry"
                          /\ UNCHANGED result
  /\ UNCHANGED <<scan_vars, ret>>

analyze_file ==
  /\ pc = "idle"
  /\ \E f \in FileCalls : analyze_file_call(f[1], f[2], f[3], f[4], f[5])
  /\ UNCHANGED <<main_vars, other>>

\* analysis.py:311  return error_str, trim_time, duration
analyze_file_return ==
  /\ pc = "returned" /\ caller = "analyze_file"
  /\ result' = <<ret[1], ret[2], duration>>
  /\ pc' = "done"
  /\ UNCHANGED <<call_vars, scan_vars, ret>>


\* a direct call of analyze_file_dynamic_scan (analysis.py:39-41)
call_dynamic_scan ==
  /\ pc = "idle"
  /\ \E c \in DynamicCalls :
       /\ data' = c[1] /\ params' = c[2]
       /\ caller' = "direct" /\ scan' = "dynamic"
       /\ pc' = "dynamic_entry"
  /\ UNCHANGED <<duration, tier, args, scan_vars, ret, result, main_vars, other>>

\* a direct call of analyze_file_fixed_end (analysis.py:159-161)
call_fixed_end ==
  /\ pc = "idle"
  /\ \E c \in FixedCalls :
       /\ data' = c[1] /\ duration' = c[2] /\ params' = c[3]
       /\ caller' = "direct" /\ scan' = "fixed"
       /\ pc' = "fixed_entry"
  /\ UNCHANGED <<tier, args, scan_vars, ret, result, main_vars, other>>


\* ----------------------------------------------------------------- main
\* the rename policy taking the suffix _1 without looking whether it exists
resolve_output_path_suffix_1(name, resolution_strategy, existing) ==
  LET output_path == <<name, 0>>
  IN IF output_path \notin existing THEN Some(output_path)
     ELSE IF resolution_strategy = "overwrite" THEN Some(output_path)
     ELSE IF resolution_strategy = "fail" THEN None
     ELSE Some(<<name, 1>>)

\* c_io.py:61-93  resolve_output_path, for the default naming scheme
\* {ORIGINAL}_trimmed: the path of a file is <<name, 0>>, the path with
\* suffix _i is <<name, i>>; existing is the set of paths that exist
resolve_output_path(name, resolution_strategy, existing) ==
  LET output_path == <<name, 0>>
  IN IF output_path \notin existing THEN Some(output_path)
     ELSE IF resolution_strategy = "overwrite" THEN Some(output_path)
     ELSE IF resolution_strategy = "fail" THEN None
     ELSE Some(<<name, CHOOSE n \in 1..(Cardinality(existing) + 1) :
                         /\ <<name, n>> \notin existing
                         /\ \A m \in 1..(n - 1) : <<name, m>> \in existing>>)

\* main.py:55-63  the report item of a file; 'duration' is "#N/A" (None
\* here) when analyze_file gave 0
ReportItem(f, res) ==
  [file |-> f.name,
   duration |-> IF res[3] = 0 THEN None ELSE Some(res[3]),
   detect_time |-> res[2], adjusted_trim_time |-> None,
   error_note |-> res[1], trim_note |-> None, new_path |-> None]

\* the note without the check of the file's duration
ErrorNote_any_duration(res, b) ==
  LET trim_offset == IF b.trim = None THEN 0 ELSE b.trim[1]
      segment_length == res[3] - (res[2][1] + trim_offset * samples_per_sec)
  IN IF segment_length < b.trim_min_seg_dur * samples_per_sec
     THEN IF segment_length > 0 THEN Some("negligible savings")
          ELSE Some("no savings")
     ELSE res[1]

\* main.py:68-82  the note of a spike that is not worth trimming
ErrorNote(res, b) ==
  LET trim_offset == IF b.trim = None THEN 0 ELSE b.trim[1]
      segment_length == res[3] - (res[2][1] + trim_offset * samples_per_sec)
  IN IF segment_length < b.trim_min_seg_dur * samples_per_sec
     THEN IF segment_length > 0 THEN Some("negligible savings")
          ELSE Some("no savings")
     ELSE IF res[3] < b.trim_min_file_dur * samples_per_sec
     THEN Some("negligible file")
     ELSE res[1]

\* the locals of the finished call of analyze_file are gone
ResetCall ==
  /\ caller' = "none"
  /\ data' = Series(0, 0, <<0, 0, 0>>, <<0, 0, 0, 0>>) /\ duration' = 0
  /\ scan' = "none" /\ tier' = "none" /\ params' = NoParams
  /\ analysis_start' = 0 /\ sum_lecture' = 0 /\ count_lecture' = 0
  /\ end_part' = <<>>
  /\ rolling_avgs' = <<>> /\ win_sum' = 0 /\ min_start_sample' = 0
  /\ i' = 0 /\ sum_before' = 0 /\ count_before' = 0
  /\ buffer' = <<>> /\ current_second' = None /\ trim_time' = None
  /\ trail' = <<>> /\ cands' = <<>>
  /\ ret' = None /\ result' = None

\* main.py:51-54  the loop takes the next file and calls analyze_file
main_for ==
  /\ pc = "main" /\ files # <<>>
  /\ LET f == Head(files)
     IN /\ file' = Some(f)
        /\ analyze_file_call(f.dur_outcome, f.dur, f.loud_outcome, f.data,
                             batch[1].args)
  /\ files' = Tail(files)
  /\ UNCHANGED <<batch, all_files, fs, trims, other>>

\* main.py:55-104  the rest of the loop body, after analyze_file returned.
\* trim_outcome says whether trim_file returns or raises one of the four
\* caught exceptions; after a raise the loop continues without appending.
main_report ==
  /\ pc = "done" /\ batch # None
  /\ \E trim_outcome \in {"ok", "raise"} :
       LET b == batch[1]
           f == file[1]
           item == ReportItem(f, result)
           detect_time == result[2]
           trim_offset == IF b.trim = None THEN 0 ELSE b.trim[1]
           noted == [item EXCEPT !.error_note = ErrorNote(result, b)]
           adjusted_trim_time ==
             Max(0, Min(result[3], detect_time[1] + trim_offset * samples_per_sec))
           output_path == resolve_output_path(f.name, b.on_conflict, fs)
           trimming == [noted EXCEPT !.adjusted_trim_time = Some(adjusted_trim_time),
                                     !.new_path = output_path]
       IN IF detect_time = None
          THEN /\ all_files' = Append(all_files, item)
               /\ UNCHANGED <<fs, trims>>
          ELSE IF b.trim = None \/ noted.error_note # None
          THEN /\ all_files' = Append(all_files, noted)
               /\ UNCHANGED <<fs, trims>>
          ELSE IF output_path = None
          THEN /\ all_files' = Append(all_files,
                    [trimming EXCEPT !.trim_note = Some("not able to be created")])
               /\ UNCHANGED <<fs, trims>>
          ELSE /\ trims' = Append(trims, [file |-> f.name,
                                          trim_time |-> adjusted_trim_time,
                                          output_path |-> output_path[1],
                                          outcome |-> trim_outcome])
               /\ IF trim_outcome = "ok"
                  THEN /\ fs' = fs \cup {output_path[1]}
                       /\ all_files' = Append(all_files, trimming)
                  ELSE UNCHANGED <<fs, all_files>>
  /\ pc' = "main"
  /\ ResetCall /\ args' = None
  /\ UNCHANGED <<batch, files, file, other>>

\* main.py:107  print_reports(all_files, args.trim) after the last file
main_print_reports ==
  /\ pc = "main" /\ files = <<>>
  /\ pc' = "reported"
  /\ UNCHANGED <<call_vars, scan_vars, ret, result>>

Next ==
  \/ analyze_file
  \/ call_dynamic_scan
  \/ call_fixed_end
  \/ dynamic_entry
  \/ dynamic_roll_step
  \/ dynamic_scan_init
  \/ dynamic_scan_step
  \/ dynamic_scan_finish
  \/ fixed_entry
  \/ fixed_roll_step
  \/ fixed_scan_init
  \/ fixed_scan_step
  \/ fixed_scan_finish
  \/ analyze_file_return

Spec == Init /\ [][Next]_vars

\* ------------------------------------------------------- a run of main
\* one step from -30 to -10 six samples into the freely shaped part
StepShape ==
  Series(TailLen, 0, <<6, TailLen, TailLen>>, <<-30, -10, -10, -10>>)

\* the kinds of file of a batch: duration extraction fails, loudness
\* extraction fails, no loudness sample, a 63 s file with a step after its
\* first minute, a 12-minute file with a step in its last seconds
FileKinds ==
  {[dur_outcome |-> "raise", dur |-> 0, loud_outcome |-> "ok", data |-> NoData],
   [dur_outcome |-> "ok", dur |-> 630, loud_outcome |-> "raise", data |-> NoData],
   [dur_outcome |-> "ok", dur |-> 630, loud_outcome |-> "ok", data |-> NoData],
   [dur_outcome |-> "ok", dur |-> 630, loud_outcome |-> "ok",
    data |-> Led(StepShape, Lead, 0)],
   [dur_outcome |-> "ok", dur |-> 7200, loud_outcome |-> "ok",
    data |-> Led(StepShape, 6, 6594)]}
Named(k, name) ==
  [name |-> name, dur_outcome |-> k.dur_outcome, dur |-> k.dur,
   loud_outcome |-> k.loud_outcome, data |-> k.data]
Batches == {<<Named(k1, 1), Named(k2, 2)>> : k1 \in FileKinds, k2 \in FileKinds}

\* config.py:186-194 and :179  -t/--trim (absent, or an offset in seconds),
\* --trim-min-seg-dur, --trim-min-file-dur, --on-conflict
BatchOptions ==
  [args : ArgsSet, trim : {None}, trim_min_seg_dur : {1, 180},
   trim_min_file_dur : {600}, on_conflict : {"rename"}]
  \cup [args : ArgsSet, trim : {Some(0)}, trim_min_seg_dur : {1, 180},
         trim_min_file_dur : {600}, on_conflict : {"overwrite", "rename", "fail"}]
  \cup [args : ArgsSet, trim : {Some(0)}, trim_min_seg_dur : {1},
         trim_min_file_dur : {900}, on_conflict : {"rename"}]
  \cup [args : ArgsSet, trim : {Some(-700)}, trim_min_seg_dur : {1},
         trim_min_file_dur : {600}, on_conflict : {"rename"}]
  \cup [args : ArgsSet, trim : {Some(100)}, trim_min_seg_dur : {-200},
         trim_min_file_dur : {600}, on_conflict : {"rename"}]
\* the output paths that exist before the run
ExistingOutputs(b) ==
  IF b.trim = None THEN {{}} ELSE {{}, {<<1, 0>>, <<1, 1>>, <<2, 0>>}}

\* main.py:30-49: arguments parsed, a non-empty list of files
MainInit ==
  /\ pc = "main" /\ NoCall
  /\ \E b \in BatchOptions :
       /\ batch = Some(b)
       /\ fs \in ExistingOutputs(b)
  /\ files \in Batches /\ file = None
  /\ all_files = <<>> /\ trims = <<>>
  /\ other = None

MainNext ==
  \/ main_for
  \/ main_report
  \/ main_print_reports
  \/ dynamic_entry
  \/ dynamic_roll_step
  \/ dynamic_scan_init
  \/ dynamic_scan_step
  \/ dynamic_scan_finish
  \/ fixed_entry
  \/ fixed_roll_step
  \/ fixed_scan_init
  \/ fixed_scan_step
  \/ fixed_scan_finish
  \/ analyze_file_return

MainSpec == MainInit /\ [][MainNext]_vars

\* ------------------------------------------------- two calls side by side
\* Every name a scan assigns is a local of its call (analysis.py:39-155 and
\* :159-273), so a second call has its own copy of all of them.  The locals
\* of the call that is running are the variables; those of the other call
\* are kept in the record other.
Locals ==
  [pc |-> pc, caller |-> caller, data |-> data, duration |-> duration,
   scan |-> scan, tier |-> tier, params |-> params, args |-> args,
   analysis_start |-> analysis_start, sum_lecture |-> sum_lecture,
   count_lecture |-> count_lecture, end_part |-> end_part,
   rolling_avgs |-> rolling_avgs, win_sum |-> win_sum,
   min_start_sample |-> min_start_sample, i |-> i,
   sum_before |-> sum_before, count_before |-> count_before,
   buffer |-> buffer, current_second |-> current_second,
   trim_time |-> trim_time, trail |-> trail, cands |-> cands,
   ret |-> ret, result |-> result]

\* the locals before a call (NoCall, as a record)
NoLocals ==
  [pc |-> "idle", caller |-> "none",
   data |-> Series(0, 0, <<0, 0, 0>>, <<0, 0, 0, 0>>), duration |-> 0,
   scan |-> "none", tier |-> "none", params |-> NoParams, args |-> None,
   analysis_start |-> 0, sum_lecture |-> 0, count_lecture |-> 0,
   end_part |-> <<>>, rolling_avgs |-> <<>>, win_sum |-> 0,
   min_start_sample |-> 0, i |-> 0, sum_before |-> 0, count_before |-> 0,
   buffer |-> <<>>, current_second |-> None, trim_time |-> None,
   trail |-> <<>>, cands |-> <<>>, ret |-> None, result |-> None]

\* the locals at the entry of analyze_file_dynamic_scan(file, data, ...)
DynamicCall(who, d, p) ==
  [NoLocals EXCEPT !.pc = "dynamic_entry", !.caller = who, !.data = d,
                   !.scan = "dynamic", !.params = p]
\* the locals at the entry of analyze_file_fixed_end(file, data, duration, ...)
FixedCall(who, d, dur, p) ==
  [NoLocals EXCEPT !.pc = "fixed_entry", !.caller = who, !.data = d,
                   !.duration = dur, !.scan = "fixed", !.params = p]

\* the call with locals l is the running one
Running(l) ==
  /\ pc = l.pc /\ caller = l.caller /\ data = l.data
  /\ duration = l.duration /\ scan = l.scan /\ tier = l.tier
  /\ params = l.params /\ args = l.args
  /\ analysis_start = l.analysis_start /\ sum_lecture = l.sum_lecture
  /\ count_lecture = l.count_lecture /\ end_part = l.end_part
  /\ rolling_avgs = l.rolling_avgs /\ win_sum = l.win_sum
  /\ min_start_sample = l.min_start_sample /\ i = l.i
  /\ sum_before = l.sum_before /\ count_before = l.count_before
  /\ buffer = l.buffer /\ current_second = l.current_second
  /\ trim_time = l.trim_time /\ trail = l.trail /\ cands = l.cands
  /\ ret = l.ret /\ result = l.result

\* the per-second buffer kept in one place for all calls, not in each call
ResumeBuffer_shared(l) == UNCHANGED <<buffer, current_second>>

\* analysis.py:84-85 and :211-212  buffer and current_second are locals
ResumeBuffer(l) ==
  /\ buffer' = l.buffer /\ current_second' = l.current_second

\* the call with locals l runs next
Resume(l) ==
  /\ pc' = l.pc /\ caller' = l.caller /\ data' = l.data
  /\ duration' = l.duration /\ scan' = l.scan /\ tier' = l.tier
  /\ params' = l.params /\ args' = l.args
  /\ analysis_start' = l.analysis_start /\ sum_lecture' = l.sum_lecture
  /\ count_lecture' = l.count_lecture /\ end_part' = l.end_part
  /\ rolling_avgs' = l.rolling_avgs /\ win_sum' = l.win_sum
  /\ min_start_sample' = l.min_start_sample /\ i' = l.i
  /\ sum_before' = l.sum_before /\ count_before' = l.count_before
  /\ ResumeBuffer(l)
  /\ trim_time' = l.trim_time /\ trail' = l.trail /\ cands' = l.cands
  /\ ret' = l.ret /\ result' = l.result

Ended(l) == l.pc \in {"idle", "returned", "raised"}

\* the other call gets to run: at any step when each file has its own
\* worker, after the running call has ended when one caller makes both calls
switch ==
  /\ other # None /\ ~Ended(other[1])
  /\ caller = "worker" \/ Ended(Locals)
  /\ other' = Some(Locals)
  /\ Resume(other[1])
  /\ UNCHANGED main_vars

\* a series of four samples whose two rolling averages of window 3 differ
\* by more than the threshold of 5
TwoWindows == Series(4, 0, <<3, 4, 4>>, <<-30, -10, -10, -10>>)

\* one caller runs the dynamic scan and then the fixed-end scan over the
\* same samples: a whole series with nothing skipped and no lecture part,
\* or the part after a first minute that is skipped by the one and is the
\* lecture of the other
SamePartPairs ==
  {<<DynamicCall("pair", TwoWindows, DynParams(3, 5, <<1>>, 0)),
     FixedCall("pair", TwoWindows, 4, FixParams(3, 5, <<1>>, 1))>>}
  \cup {<<DynamicCall("pair", d, DynParams(3, thr, conf, 0)),
          FixedCall("pair", d, ShortDuration, FixParams(3, thr, conf, 1))>> :
          d \in {x \in Shapes : x.j2 = x.n}, thr \in Thresholds,
          conf \in ConfirmLists}
  \cup {<<DynamicCall("pair", Led(d, Lead, 0), DynParams(3, 12, conf, 1)),
          FixedCall("pair", Led(d, Lead, 0), 2 * Lead,
                    FixParams(3, 12, conf, 1))>> :
          d \in Shapes, conf \in ConfirmLists}

\* the scans of two files, each in a worker of its own
WorkerFile1 == DynamicCall("worker", EarlyPulseData, EarlyPulseParams)
WorkerFile2 ==
  FixedCall("worker", Led(StepShape, 6, 400 - 6), FixDuration,
            FixParams(3, 12, <<1, 2>>, 1))
WorkerFile3 ==
  FixedCall("worker",
            Led(Series(TailLen, 0, <<6, 12, 18>>, <<-30, -10, -30, -10>>),
                6, 400 - 6),
            FixDuration, FixParams(3, 5, <<1>>, 1))
WorkerPairs ==
  {<<WorkerFile1, WorkerFile3>>, <<WorkerFile3, WorkerFile1>>,
   <<WorkerFile2, WorkerFile3>>, <<WorkerFile3, WorkerFile2>>}
  \cup {<<f, NoLocals>> : f \in {WorkerFile1, WorkerFile2, WorkerFile3}}

PairInit ==
  /\ \E c \in SamePartPairs \cup WorkerPairs :
       /\ Running(c[1])
       /\ other = Some(c[2])
  /\ batch = None /\ files = <<>> /\ file = None
  /\ all_files = <<>> /\ fs = {} /\ trims = <<>>

PairNext ==
  \/ switch
  \/ dynamic_entry
  \/ dynamic_roll_step
  \/ dynamic_scan_init
  \/ dynamic_scan_step
  \/ dynamic_scan_finish
  \/ fixed_entry
  \/ fixed_roll_step
  \/ fixed_scan_init
  \/ fixed_scan_step
  \/ fixed_scan_finish

PairSpec == PairInit /\ [][PairNext]_vars



\* ================================================================ claims
Scanning == pc \in {"dynamic_scan", "fixed_scan"}
ScanEnded == pc \in {"returned", "raised", "done"} /\ rolling_avgs # <<>>
Offsets == params.confirm_seconds

\* offset number m of the list passes for the candidate at index k: its
\* index is inside rolling_avgs and the average there is not smaller
OffsetPasses(k, m) ==
  LET confirm_i == k + Offsets[m] * samples_per_sec
  IN /\ confirm_i < Len(rolling_avgs)
     /\ At(rolling_avgs, confirm_i) >= At(rolling_avgs, k)
AllOffsetsPass(k) == \A m \in 1..Len(Offsets) : OffsetPasses(k, m)

\* C5: a recorded candidate is a Pass exactly when every configured confirm
\* offset lands inside the rolling-average array on an average greater than
\* or equal to the candidate's own; an offset out of range or on a strictly
\* smaller average makes it a Fail.  A trim time is only ever set from a
\* candidate that passed.
C5_ConfirmedOnlyIfAllOffsetsPass ==
  /\ \A k \in 1..Len(cands) :
       (cands[k].status = "Pass") <=> AllOffsetsPass(cands[k].index)
  /\ trim_time # None =>
       /\ cands # <<>>
       /\ cands[Len(cands)].status = "Pass"
       /\ trim_time = Some(cands[Len(cands)].time)

\* a walk with two confirm offsets and a baseline that recorded a candidate
\* failing on a strictly smaller average, and later a candidate that passed
C5_Witness ==
  /\ trim_time # None /\ Len(Offsets) = 2
  /\ \E k \in 1..Len(cands) :
       /\ cands[k].status = "Fail" /\ cands[k].count_before > 0
       /\ cands[k].confirm_results = <<"less">>

\* the number of offsets that pass before the first one that does not
LeadingPasses(k) ==
  CHOOSE m \in 0..Len(Offsets) :
    /\ \A j \in 1..m : OffsetPasses(k, j)
    /\ m < Len(Offsets) => ~OffsetPasses(k, m + 1)

\* C6: confirmation short-circuits.  Every evaluated offset leaves one
\* annotation; a Fail candidate has evaluated pass_count + 1 offsets, its
\* pass_count being the number of offsets that pass before the first failing
\* one; a Pass candidate has pass_count equal to the number of offsets.
C6_ShortCircuit ==
  \A k \in 1..Len(cands) :
    LET c == cands[k]
    IN /\ Len(c.confirm_results) = c.evaluated
       /\ c.pass_count = LeadingPasses(c.index)
       /\ c.status = "Fail" =>
            c.evaluated = c.pass_count + 1 /\ c.pass_count < Len(Offsets)
       /\ c.status = "Pass" =>
            c.evaluated = Len(Offsets) /\ c.pass_count = Len(Offsets)

\* a candidate failing at its first offset although its second would pass
C6_Witness ==
  \E k \in 1..Len(cands) :
    /\ Len(Offsets) = 2
    /\ cands[k].status = "Fail" /\ cands[k].evaluated = 1
    /\ OffsetPasses(cands[k].index, 2)

\* the series a scan builds its windows over, and the direct sum of window k
RolledLen == IF scan = "dynamic" THEN DataLen(data) ELSE Len(end_part)
DirectSum(k) ==
  IF scan = "dynamic"
  THEN SumSlice(DataVals(data, k, k + params.window_size), 0, params.window_size)
  ELSE SumSlice(ValsOf(end_part), k, k + params.window_size)
SampleTime(k) ==
  IF scan = "dynamic" THEN DataTime(data, k) ELSE At(end_part, k)[1]

\* C7: for a series of N values and a window 0 < w < N the sliding sum
\* yields N - w + 1 rolling averages; the running window sum at every index
\* equals the directly computed sum of values i .. i+w-1 (so the average is
\* the direct mean), and the entry is paired with the time of sample i.
C7_RollingAverages ==
  LET n == Len(rolling_avgs)
      total_windows == RolledLen - params.window_size + 1
  IN /\ pc \in {"dynamic_roll", "fixed_roll"} =>
          /\ 0 < params.window_size /\ params.window_size < RolledLen
          /\ n = i /\ 1 <= n /\ n <= total_windows
          /\ win_sum = DirectSum(n - 1)
          /\ At(rolling_avgs, n - 1) = DirectSum(n - 1)
     /\ Scanning => n = total_windows
     /\ Scanning /\ cands = <<>> /\ (scan = "dynamic" => i = min_start_sample)
                 /\ (scan = "fixed" => i = 0) =>
          \A k \in 0..(n - 1) : At(rolling_avgs, k) = DirectSum(k)
     /\ \A k \in 1..Len(cands) : cands[k].time = SampleTime(cands[k].index)

\* a finished array of at least twenty windows that are not all equal
C7_Witness ==
  /\ Scanning /\ params.window_size > 1
  /\ Len(rolling_avgs) >= 20
  /\ Len(rolling_avgs) = RolledLen - params.window_size + 1
  /\ \E k \in 1..(Len(rolling_avgs) - 1) : rolling_avgs[k] # rolling_avgs[k + 1]


\* C1: analyze_file returns one of three shapes, (message, None, duration
\* or 0), (None, None, duration) or (None, trim time, duration): it always
\* returns, and never an error message together with a trim time.
C1_AnalyzeFileShapes ==
  caller = "analyze_file" =>
    /\ pc # "raised"
    /\ pc = "done" =>
         /\ Len(result) = 3
         /\ \/ result[1] # None /\ result[2] = None /\ result[3] \in {0, duration}
            \/ result[1] = None /\ result[2] = None /\ result[3] = duration
            \/ result[1] = None /\ result[2] # None /\ result[3] = duration
         /\ ~(result[1] # None /\ result[2] # None)

\* analyze_file has returned a trim time found by the dynamic scan
C1_Witness ==
  /\ caller = "analyze_file" /\ pc = "done" /\ scan = "dynamic"
  /\ result[1] = None /\ result[2] # None /\ result[3] = duration

\* the baseline the specification gives index k of a walk: the mean of the
\* rolling averages before k in the dynamic scan, the lecture mean in the
\* fixed-end scan; no index is a candidate while there is no baseline
IsCandidate(k) ==
  IF scan = "dynamic"
  THEN /\ k > 0
       /\ At(rolling_avgs, k) * k >
            SumSlice(rolling_avgs, 0, k)
            + params.loudness_threshold * params.window_size * k
  ELSE /\ count_lecture > 0
       /\ At(rolling_avgs, k) * count_lecture >
            sum_lecture * params.window_size
            + params.loudness_threshold * params.window_size * count_lecture
WalkStart == IF scan = "dynamic" THEN min_start_sample ELSE 0
Confirmable ==
  {k \in WalkStart..(Len(rolling_avgs) - 1) : IsCandidate(k) /\ AllOffsetsPass(k)}
EarliestConfirmable == CHOOSE k \in Confirmable : \A j \in Confirmable : k <= j
WalkEnded ==
  \/ pc = "raised"
  \/ pc \in {"returned", "done"} /\ ret # None /\ ret[1] = None

\* C2: a walk returns ConfirmedSpike(t) exactly when some scanned index is a
\* candidate whose confirm offsets all pass, t being the time of the
\* smallest such index; otherwise it returns NoSpike.
C2_EarliestConfirmedWins ==
  WalkEnded =>
    /\ pc # "raised"
    /\ ret = <<None, IF Confirmable = {} THEN None
                     ELSE Some(SampleTime(EarliestConfirmable))>>

\* C3: in the dynamic scan no candidate is recorded while no baseline
\* exists (count_before = 0).
C3_NoCandidateWithoutBaseline ==
  scan = "dynamic" => \A k \in 1..Len(cands) : cands[k].count_before > 0

\* C4: in the fixed-end scan without a sample before analysis_start no index
\* of the tail is a candidate, and no spike is confirmed.
C4_NoCandidateWithoutLecture ==
  scan = "fixed" /\ count_lecture = 0 =>
    /\ cands = <<>>
    /\ trim_time = None
    /\ ret # None => ret[2] = None

IsExample1 ==
  caller = "direct" /\ scan = "dynamic" /\ data = Ex1Data /\ params = Ex1Params
IsExample3 ==
  /\ caller = "direct" /\ scan = "fixed" /\ data = Ex3Data
  /\ duration = Ex3Duration /\ params = Ex3Params

\* C8: on end-to-end example 1 the dynamic scan returns a confirmed spike at
\* about 6.0 s (within a tenth of a second).
C8_Example1 ==
  IsExample1 /\ pc \in {"returned", "raised"} =>
    /\ pc = "returned"
    /\ ret[1] = None /\ ret[2] # None
    /\ ret[2][1] \in 59..61

\* C9 as stated: on end-to-end example 3 the fixed-end scan uses a lecture
\* baseline of -35 and returns a confirmed spike at about 350.0 s (within a
\* tenth of a second).
C9_Example3_AsStated ==
  IsExample3 /\ pc \in {"returned", "raised"} =>
    /\ pc = "returned"
    /\ sum_lecture = -35 * count_lecture /\ count_lecture > 0
    /\ ret[1] = None /\ ret[2] # None
    /\ ret[2][1] \in 3499..3501

\* C9 as amended: on end-to-end example 3, with the default window of 50
\* samples and confirm offsets [5, 10], the fixed-end scan uses the lecture
\* baseline -35 of the 3400 samples before 340 s and returns a confirmed
\* spike at 347.6 s, the first window whose mean exceeds -25.
C9_Example3 ==
  IsExample3 /\ pc \in {"returned", "raised"} =>
    /\ pc = "returned"
    /\ analysis_start = 3400
    /\ count_lecture = 3400 /\ sum_lecture = -35 * count_lecture
    /\ ret = <<None, Some(3476)>>

\* example 3 has returned
C9_Witness == IsExample3 /\ pc = "returned" /\ trim_time # None

C11_ClosedUpperBounds ==
  caller = "analyze_file" /\ scan # "none" =>
    LET a == args[1]
        t_short == a.short_file_thresh_mins * 60 * samples_per_sec
        t_medium == a.med_file_thresh_mins * 60 * samples_per_sec
    IN /\ duration <= t_short => tier = "short" /\ scan = "dynamic"
       /\ t_short < duration /\ duration <= t_medium =>
            tier = "medium" /\ scan = "dynamic"
       /\ duration > t_medium => tier = "long" /\ scan = "fixed"

\* the series a scan takes its windows from, once the scan has looked at it
Entered == scan # "none" /\ pc \notin {"idle", "dynamic_entry", "fixed_entry"}
InvalidWindow ==
  \/ params.window_size <= 0
  \/ params.window_size >=
       (IF scan = "dynamic" THEN DataLen(data) ELSE Len(end_part))

\* C12: a window size w <= 0 or w >= the length of the scanned series (the
\* whole series in the dynamic scan, the tail in the fixed-end scan) makes
\* the scan return an error message and no trim time; nothing is raised, no
\* rolling average is built and no candidate is recorded.
C12_InvalidWindowIsAnError ==
  Entered /\ InvalidWindow =>
    /\ pc \in {"returned", "done"}
    /\ ret[1] # None /\ ret[2] = None
    /\ rolling_avgs = <<>> /\ cands = <<>> /\ trail = <<>> /\ trim_time = None
    /\ pc = "done" => result[1] # None /\ result[2] = None

\* the fixed-end scan has refused a window as long as its non-empty tail
C12_Witness ==
  /\ scan = "fixed" /\ pc = "returned" /\ end_part # <<>>
  /\ params.window_size = Len(end_part)
  /\ ret = <<Some("invalid window_size"), None>>

\* C13: the dynamic scan returns an error message and no trim time, and
\* examines no index, when the skip start index skip_mins * 60 *
\* samples_per_sec is at or beyond the length of the rolling-average array;
\* the fixed-end scan returns an error message and no trim time, and builds
\* no rolling average, when no sample has a time >= analysis_start.
C13_NothingToScanIsAnError ==
  /\ /\ scan = "dynamic"
     /\ pc \in {"dynamic_scan", "returned", "raised", "done"}
     /\ rolling_avgs # <<>>
     /\ params.skip_mins * 60 * samples_per_sec >= Len(rolling_avgs)
     => /\ pc \in {"returned", "done"}
        /\ ret[1] # None /\ ret[2] = None
        /\ cands = <<>> /\ trail = <<>> /\ buffer = <<>>
        /\ sum_before = 0 /\ count_before = 0
        /\ pc = "done" => result[1] # None /\ result[2] = None
  /\ /\ scan = "fixed" /\ Entered
     /\ DataTime(data, DataLen(data) - 1)
          < Max(0, duration - params.analysis_minutes * 60 * samples_per_sec)
     => /\ pc \in {"returned", "done"}
        /\ ret[1] # None /\ ret[2] = None
        /\ end_part = <<>> /\ rolling_avgs = <<>> /\ cands = <<>> /\ trail = <<>>
        /\ pc = "done" => result[1] # None /\ result[2] = None

\* the dynamic scan has refused a skip start index equal to the number of
\* rolling averages
C13_Witness ==
  /\ scan = "dynamic" /\ pc = "returned"
  /\ rolling_avgs # <<>> /\ min_start_sample = Len(rolling_avgs)
  /\ ret = <<Some("skip exceeds file duration"), None>>

\* the file main is dealing with is one analyze_file has nothing to scan for
NoScanFile(f) ==
  f.dur_outcome = "raise" \/ f.loud_outcome = "raise" \/ DataLen(f.data) = 0
UpstreamResult(f) ==
  IF f.dur_outcome = "raise" THEN <<Some("Error getting duration"), None, 0>>
  ELSE IF f.loud_outcome = "raise" THEN <<Some("Error getting loudness"), None, 0>>
  ELSE <<Some("No loudness data"), None, f.dur>>
InCall == file # None /\ pc \notin {"main", "reported"}

\* C14: a failure of duration extraction or of loudness extraction is
\* returned as (message, None, 0), an empty loudness series as (message,
\* None, duration); in all three cases no scan runs, nothing is raised out
\* of analyze_file, and the loop appends the file's report item and goes on
\* to the next file.
C14_UpstreamFailures ==
  /\ [](InCall /\ NoScanFile(file[1]) =>
          /\ pc = "done"
          /\ result = UpstreamResult(file[1])
          /\ scan = "none" /\ tier = "none" /\ ret = None
          /\ rolling_avgs = <<>> /\ end_part = <<>> /\ cands = <<>>
          /\ trail = <<>>)
  /\ [](pc = "main" /\ files # <<>> => ENABLED main_for)
  /\ [][pc = "done" /\ NoScanFile(file[1]) =>
          /\ pc' = "main" /\ files' = files
          /\ all_files' = Append(all_files, ReportItem(file[1], result))
          /\ fs' = fs /\ trims' = trims]_vars

\* a batch whose first file failed duration extraction and whose second
\* file was analysed down to a detected spike
C14_Witness ==
  /\ pc = "main" /\ files = <<>> /\ Len(all_files) = 2
  /\ all_files[1].file = 1 /\ all_files[1].duration = None
  /\ all_files[1].error_note = Some("Error getting duration")
  /\ all_files[1].detect_time = None
  /\ all_files[2].file = 2 /\ all_files[2].detect_time # None

\* the candidates and the trail entries of an integer second
WalkOver == pc \in {"returned", "raised", "done"}
CandSeconds == {IntSecond(cands[k].time) : k \in 1..Len(cands)}
CandsIn(sec) == {k \in 1..Len(cands) : IntSecond(cands[k].time) = sec}
TrailIn(sec) == {k \in 1..Len(trail) : IntSecond(trail[k].time) = sec}
AllFail(sec) == \A k \in CandsIn(sec) : cands[k].status = "Fail"
\* the candidate of the second with the highest pass_count, the earliest
\* one on a tie
BestIn(sec) ==
  CHOOSE k \in CandsIn(sec) :
    \A j \in CandsIn(sec) :
      \/ cands[j].pass_count < cands[k].pass_count
      \/ cands[j].pass_count = cands[k].pass_count /\ k <= j
BestFailLine(c) ==
  [fmt |-> "best_fail", status |-> "Fail",
   time |-> IntSecond(c.time) * samples_per_sec,
   spike_avg |-> At(rolling_avgs, c.index),
   pass_count |-> c.pass_count, confirm_results |-> c.confirm_results]

\* C15: once a walk is over, every integer second in which every candidate
\* is a Fail has exactly one entry in the trail, the one of the candidate
\* with the highest pass_count among them (the earliest on a tie); Fail
\* candidates with pass-counts 0, 2, 1 leave only the pass-count-2 entry.
C15_OneBestFailPerSecond ==
  WalkOver =>
    \A sec \in CandSeconds :
      AllFail(sec) =>
        \E t \in 1..Len(trail) :
          /\ TrailIn(sec) = {t}
          /\ trail[t] = BestFailLine(cands[BestIn(sec)])

\* C16: once a walk is over the trail holds at most one entry per integer
\* second, the second of the confirmed Pass included.
C16_OneEntryPerSecond ==
  WalkOver => \A sec \in CandSeconds : Cardinality(TrailIn(sec)) <= 1

PassLine(c) ==
  [fmt |-> "item", status |-> "Pass", time |-> c.time,
   spike_avg |-> At(rolling_avgs, c.index),
   pass_count |-> c.pass_count, confirm_results |-> c.confirm_results]
PassEntries == {t \in 1..Len(trail) : trail[t].status = "Pass"}

\* C17: once a candidate is confirmed the scan stops: the buffer is flushed
\* and cleared at once, the Pass entry is emitted exactly once and is the
\* last entry of the trail, no index after the confirmed one is examined,
\* and the closing flush emits nothing further.
C17_ConfirmedStopsTheScan ==
  /\ [](cands # <<>> /\ cands[Len(cands)].status = "Pass" =>
          /\ pc # "raised"
          /\ trim_time = Some(cands[Len(cands)].time)
          /\ buffer = <<>>
          /\ trail # <<>> /\ trail[Len(trail)] = PassLine(cands[Len(cands)])
          /\ PassEntries = {Len(trail)}
          /\ i = cands[Len(cands)].index)
  /\ [][cands # <<>> /\ cands[Len(cands)].status = "Pass" =>
          /\ trail' = trail /\ cands' = cands /\ buffer' = buffer
          /\ i' = i /\ trim_time' = trim_time
          /\ pc' \in {"returned", "done"}]_vars

\* C18: in the dynamic scan, at the start of the iteration for every index
\* i >= 1, sum_before is the sum of the rolling averages 0 .. i-1 and
\* count_before is i, the skipped leading region and the earlier failed
\* candidates included; the iteration records index i as a candidate
\* exactly when its rolling average is strictly greater than that mean plus
\* the threshold.
C18_BaselineIsMeanBefore ==
  /\ [](pc = "dynamic_scan" /\ trim_time = None /\ i >= 1 =>
          /\ count_before = i
          /\ sum_before = SumSlice(rolling_avgs, 0, i))
  /\ [][pc = "dynamic_scan" /\ trim_time = None /\ i >= 1
        /\ i < Len(rolling_avgs) =>
          LET mean_num == SumSlice(rolling_avgs, 0, i)
              above == At(rolling_avgs, i) * i
                         > mean_num + params.loudness_threshold
                                      * params.window_size * i
          IN IF above
             THEN /\ Len(cands') = Len(cands) + 1
                  /\ cands'[Len(cands')].index = i
             ELSE /\ cands' = cands
                  /\ i' = i + 1]_vars

\* a walk past the skipped first minute that has folded a failed candidate
\* into the baseline and gone on to a later index
C18_Witness ==
  /\ pc = "dynamic_scan" /\ trim_time = None
  /\ min_start_sample > 0 /\ i > min_start_sample + 1
  /\ cands # <<>> /\ cands[1].status = "Fail" /\ cands[1].index < i - 1
  /\ sum_before # At(rolling_avgs, 0) * count_before

\* C19: in the fixed-end scan the lecture sum and count, and so lecture_avg,
\* are left unchanged by every step of the tail walk, whether it finds no
\* candidate, a failed one or a confirmed one; the step records tail index
\* i as a candidate exactly when its rolling average is strictly greater
\* than lecture_avg plus the threshold (lecture_avg being -inf, below every
\* average, when count_lecture is 0).
C19_FixedBaseline ==
  /\ [][(pc = "fixed_roll" \/ pc = "fixed_scan") =>
          sum_lecture' = sum_lecture /\ count_lecture' = count_lecture]_vars
  /\ [][pc = "fixed_scan" /\ trim_time = None /\ i < Len(rolling_avgs) =>
          LET above ==
                \/ count_lecture = 0
                \/ At(rolling_avgs, i) * count_lecture
                     > (sum_lecture + params.loudness_threshold * count_lecture)
                       * params.window_size
          IN IF above
             THEN /\ Len(cands') = Len(cands) + 1
                  /\ cands'[Len(cands')].index = i
             ELSE /\ cands' = cands
                  /\ i' = i + 1]_vars

\* a tail walk with a lecture part that has recorded a failed candidate and
\* then stepped over an index that is no candidate
C19_Witness ==
  /\ pc = "fixed_scan" /\ trim_time = None /\ count_lecture > 0
  /\ cands # <<>> /\ cands[Len(cands)].status = "Fail"
  /\ i > cands[Len(cands)].index + 1

\* the fixed-end scan has just partitioned its series
Partitioned ==
  /\ scan = "fixed"
  /\ \/ pc = "fixed_roll" /\ Len(rolling_avgs) = 1
     \/ pc = "returned" /\ rolling_avgs = <<>>

\* C20: the fixed-end scan partitions the series at analysis_start =
\* max(0, duration - analysis_minutes * 60): every sample is counted in
\* exactly one region, the lecture sum and count are those of exactly the
\* samples with time < analysis_start, and the tail is exactly the samples
\* with time >= analysis_start in their original order; the walk leaves the
\* partition as it is.
C20_Partition ==
  /\ [](Partitioned =>
          LET n == DataLen(data)
              start == Max(0, duration
                              - params.analysis_minutes * 60 * samples_per_sec)
              before == {k \in 0..(n - 1) : DataTime(data, k) < start}
              cl == Cardinality(before)
          IN /\ analysis_start = start
             /\ before = 0..(cl - 1)
             /\ count_lecture = cl
             /\ sum_lecture = SumSlice(DataVals(data, 0, cl), 0, cl)
             /\ count_lecture + Len(end_part) = n
             /\ \A j \in 1..Len(end_part) :
                  /\ end_part[j] = <<DataTime(data, cl + j - 1),
                                     DataVal(data, cl + j - 1)>>
                  /\ end_part[j][1] >= start)
  /\ [][scan = "fixed" /\ Entered =>
          /\ analysis_start' = analysis_start /\ end_part' = end_part
          /\ sum_lecture' = sum_lecture /\ count_lecture' = count_lecture
          /\ data' = data]_vars

\* a partition with samples on both sides of analysis_start
C20_Witness ==
  /\ Partitioned /\ analysis_start > 0
  /\ count_lecture > 0 /\ end_part # <<>>
  /\ end_part[1][1] = analysis_start

\* a trail entry is the line of the recorded candidate c
LineOf(l, c) ==
  /\ l.status = c.status /\ l.pass_count = c.pass_count
  /\ l.confirm_results = c.confirm_results
  /\ l.spike_avg = At(rolling_avgs, c.index)
  /\ l.fmt = "item" => l.time = c.time
  /\ l.fmt = "best_fail" => l.time = (c.time \div samples_per_sec) * samples_per_sec
SkipStart == params.skip_mins * 60 * samples_per_sec
TailStart == Max(0, duration - params.analysis_minutes * 60 * samples_per_sec)
InScannedRegion(c) ==
  IF scan = "dynamic"
  THEN c.index >= SkipStart /\ c.time = DataTime(data, c.index)
  ELSE c.time >= TailStart

\* C21: no scan reports anything from its excluded region.  In the dynamic
\* scan no index below the skip start index is examined, and every
\* candidate, every trail entry and a returned trim time belong to an index
\* at or after it; in the fixed-end scan every candidate, every trail entry
\* and a returned trim time carry a timestamp at or after analysis_start.
C21_NothingFromTheExcludedRegion ==
  /\ pc = "dynamic_scan" => i >= SkipStart
  /\ \A k \in 1..Len(cands) : InScannedRegion(cands[k])
  /\ \A t \in 1..Len(trail) :
       \E k \in 1..Len(cands) :
         LineOf(trail[t], cands[k]) /\ InScannedRegion(cands[k])
  /\ trim_time # None =>
       \E k \in 1..Len(cands) :
         trim_time = Some(cands[k].time) /\ InScannedRegion(cands[k])
  /\ pc \in {"returned", "done"} /\ ret # None /\ ret[2] # None =>
       \E k \in 1..Len(cands) :
         ret[2] = Some(cands[k].time) /\ InScannedRegion(cands[k])

\* a dynamic scan that skipped a first minute holding a window louder than
\* the threshold over the opening level, and returned a trim time after it
C21_Witness ==
  /\ scan = "dynamic" /\ pc = "returned" /\ ret[1] = None /\ ret[2] # None
  /\ min_start_sample = 60 * samples_per_sec
  /\ \E k \in 0..(min_start_sample - 1) :
       At(rolling_avgs, k) >
         At(rolling_avgs, 0) + params.loudness_threshold * params.window_size
  /\ trail # <<>>

\* C22: when the dynamic scan records a candidate while no baseline exists
\* (count_before = 0, pass_val the string "-inf"), emitting its entry never
\* raises: the scan runs to completion and returns NoSpike or a confirmed
\* trim time.
C22_NoBaselineCandidateIsEmitted ==
  scan = "dynamic" /\ (\E k \in 1..Len(cands) : cands[k].count_before = 0) =>
    /\ pc # "raised"
    /\ pc \notin {"dynamic_scan", "idle"} => ret # None /\ ret[1] = None

\* one caller has run both scans over the same samples, and both have walked
DynamicRun == IF scan = "dynamic" THEN Locals ELSE other[1]
FixedRun == IF scan = "fixed" THEN Locals ELSE other[1]
BothWalked ==
  /\ other # None /\ caller = "pair"
  /\ pc \in {"returned", "raised"} /\ other[1].pc \in {"returned", "raised"}
  /\ DynamicRun.ret # <<Some("invalid window_size"), None>>
  /\ DynamicRun.ret # <<Some("skip exceeds file duration"), None>>
  /\ FixedRun.rolling_avgs # <<>>
\* the rolling averages of the fixed-end scan are those the dynamic scan
\* walks, from its start index on
SameArray ==
  LET dr == DynamicRun.rolling_avgs
      fr == FixedRun.rolling_avgs
      start == DynamicRun.min_start_sample
  IN /\ Len(dr) = start + Len(fr)
     /\ \A r \in 0..(Len(fr) - 1) : At(fr, r) = At(dr, start + r)
\* index k is above the dynamic baseline (there being none at index 0), and
\* index r is above the lecture baseline (there being none without lecture)
AboveDynamicBaseline(k) ==
  LET dr == DynamicRun.rolling_avgs
      p == DynamicRun.params
  IN \/ k = 0
     \/ At(dr, k) * k >
          SumSlice(dr, 0, k) + p.loudness_threshold * p.window_size * k
AboveLectureBaseline(r) ==
  LET f == FixedRun
  IN \/ f.count_lecture = 0
     \/ At(f.rolling_avgs, r) * f.count_lecture >
          f.sum_lecture * f.params.window_size
          + f.params.loudness_threshold * f.params.window_size * f.count_lecture
SameCandidates ==
  \A r \in 0..(Len(FixedRun.rolling_avgs) - 1) :
    AboveDynamicBaseline(DynamicRun.min_start_sample + r)
      <=> AboveLectureBaseline(r)

\* C23: the confirmation and the per-second buffering of the fixed-end scan
\* are equivalent to those of the dynamic scan: run over the same rolling
\* averages with baselines that make the same indices candidates, the two
\* scans record the same candidates with the same status, pass_count and
\* number of annotations, log the same trail and return the same result.
C23_ScansAgree ==
  BothWalked /\ SameArray /\ SameCandidates =>
    LET d == DynamicRun
        f == FixedRun
    IN /\ Len(d.cands) = Len(f.cands)
       /\ \A k \in 1..Min(Len(d.cands), Len(f.cands)) :
            /\ d.cands[k].index = d.min_start_sample + f.cands[k].index
            /\ d.cands[k].status = f.cands[k].status
            /\ d.cands[k].pass_count = f.cands[k].pass_count
            /\ Len(d.cands[k].confirm_results) = Len(f.cands[k].confirm_results)
       /\ d.trail = f.trail
       /\ d.pc = f.pc /\ d.ret = f.ret

\* between two iterations of a scan loop, or after the loop
BetweenIterations == pc \in {"dynamic_scan", "fixed_scan", "returned", "done"}
\* the scanned indices whose sample lies in integer second sec
IndicesIn(sec) ==
  {k \in WalkStart..(Len(rolling_avgs) - 1) :
     SampleTime(k) \div samples_per_sec = sec}

\* C24: at the end of every loop iteration of either scan all entries of
\* the per-second buffer have the same integer second, the one held in
\* current_second; the buffer never holds more entries than there are
\* samples within that second.
C24_BufferHoldsOneSecond ==
  BetweenIterations /\ buffer # <<>> =>
    /\ current_second # None
    /\ \A k \in 1..Len(buffer) :
         buffer[k].time \div samples_per_sec = current_second[1]
    /\ Len(buffer) <= Cardinality(IndicesIn(current_second[1]))
    /\ Len(buffer) <= samples_per_sec

\* a buffer of several entries of one second, after the entries of an
\* earlier second have been flushed
C24_Witness ==
  /\ Scanning /\ Len(buffer) >= 3 /\ trail # <<>>
  /\ \E k \in 1..Len(cands) :
       cands[k].time \div samples_per_sec < current_second[1]

\* a walk has begun and is over: by a return after the loop, or by an
\* exception out of it
Walked ==
  /\ pc \in {"returned", "raised", "done"} /\ rolling_avgs # <<>>
  /\ ret = None \/ ret[1] = None
\* the walk stood at a confirmed candidate, the first one, when it ended
AtFirstConfirmed ==
  /\ cands # <<>> /\ cands[Len(cands)].status = "Pass"
  /\ cands[Len(cands)].index = i
  /\ \A k \in 1..(Len(cands) - 1) : cands[k].status = "Fail"

\* C25: every scan terminates.  The walk goes through the rolling-average
\* indices in increasing order, one index per iteration and none twice,
\* from its start index, so it makes at most (number of rolling averages -
\* start index) iterations; it ends either at the first confirmed candidate
\* or at the end of the array.
C25_WalkIsBounded ==
  /\ [](Scanning => WalkStart <= i /\ i <= Len(rolling_avgs))
  /\ [][Scanning =>
          \/ i' = i + 1 /\ pc' = pc /\ trim_time' = None
          \/ i' = i /\ (trim_time' # None \/ pc' # pc)]_vars
  /\ [](Walked => AtFirstConfirmed \/ i = Len(rolling_avgs))

\* what the scan of each worker file logs and returns when it runs alone
Logged(status, time, spike_avg, pass_count, confirm_results) ==
  [fmt |-> "item", status |-> status, time |-> time, spike_avg |-> spike_avg,
   pass_count |-> pass_count, confirm_results |-> confirm_results]
RunAlone(d) ==
  IF d = WorkerFile1.data
  THEN [ret |-> <<None, Some(605)>>,
        trail |-> <<Logged("Pass", 605, -50, 1, <<"ok">>)>>]
  ELSE IF d = WorkerFile2.data
  THEN [ret |-> <<None, Some(405)>>,
        trail |-> <<Logged("Pass", 405, -50, 2, <<"ok", "ok">>)>>]
  ELSE [ret |-> <<None, Some(408)>>,
        trail |-> <<Logged("Fail", 404, -70, 0, <<"less">>),
                    Logged("Fail", 405, -50, 0, <<"less">>),
                    Logged("Fail", 406, -30, 0, <<"less">>),
                    Logged("Fail", 407, -30, 0, <<"less">>),
                    Logged("Pass", 408, -30, 1, <<"ok">>)>>]
SameAsAlone(l) ==
  l.pc \in {"returned", "raised"} =>
    /\ l.pc = "returned"
    /\ l.ret = RunAlone(l.data).ret
    /\ l.trail = RunAlone(l.data).trail

\* C26: a scan never modifies the loudness series or the confirm-offset
\* list it is given, and all it assigns is local to its call: a step of one
\* scan leaves the locals of the other call as they are, and a call that is
\* resumed finds its locals as it left them.  Therefore the scans of two
\* files, run one after the other or with their steps interleaved in any
\* way, each log the same trail and return the same result as the scan run
\* alone.
C26_ScansAreIndependent ==
  /\ [](other # None /\ caller = "worker" =>
          SameAsAlone(Locals) /\ SameAsAlone(other[1]))
  /\ [][other # None =>
          \/ other' = other /\ data' = data /\ params' = params
          \/ other' = Some(Locals) /\ Locals' = other[1]]_vars

\* two workers in the middle of their walks: the dynamic scan of one file
\* is past its start index while the fixed-end scan of the other file holds
\* several buffered entries
C26_Witness ==
  /\ other # None /\ caller = "worker"
  /\ pc = "dynamic_scan" /\ i > min_start_sample /\ i < Len(rolling_avgs)
  /\ other[1].pc = "fixed_scan" /\ other[1].trim_time = None
  /\ Len(other[1].buffer) >= 2

\* the file of the current iteration has a detected spike that is worth
\* trimming under the options of the batch
TrimOffset == IF batch[1].trim = None THEN 0 ELSE batch[1].trim[1]
WorthTrimming ==
  /\ result[1] = None /\ result[2] # None
  /\ result[3] - (result[2][1] + TrimOffset * samples_per_sec)
       >= batch[1].trim_min_seg_dur * samples_per_sec
  /\ result[3] >= batch[1].trim_min_file_dur * samples_per_sec

\* C27: the batch loop calls trim_file for a file only if auto-trim is
\* enabled, a spike was detected, the segment that would be removed
\* (duration - (detect_time + offset)) is at least trim_min_seg_dur, the
\* duration is at least trim_min_file_dur and an output path was resolved;
\* the trim time it passes lies between 0 and the duration.
C27_TrimFileOnlyWhenWorthIt ==
  [][trims' # trims =>
       LET t == trims'[Len(trims')]
       IN /\ trims' = Append(trims, t)
          /\ pc = "done" /\ t.file = file[1].name
          /\ batch[1].trim # None
          /\ WorthTrimming
          /\ t.output_path \in {file[1].name} \X (0..(Cardinality(fs) + 1))
          /\ 0 <= t.trim_time /\ t.trim_time <= result[3]
          /\ t.trim_time \in {0, result[3],
                              result[2][1] + TrimOffset * samples_per_sec}]_vars

\* trim_file was called with a trim time clamped to 0, and with one clamped
\* to the duration
C27_Witness ==
  /\ trims # <<>> /\ batch # None
  /\ \/ /\ batch[1].trim = Some(-700)
        /\ \E k \in 1..Len(trims) : trims[k].trim_time = 0
     \/ /\ batch[1].trim = Some(100)
        /\ \E k \in 1..Len(trims) : trims[k].trim_time = 7200

\* C28: after the batch loop the report list holds exactly one item for
\* every input file, in input order, whatever happened to the file; a file
\* whose trim raised an error is reported with its trim_note.
C28_OneReportItemPerFile ==
  pc = "reported" =>
    /\ Len(all_files) = 2
    /\ \A k \in 1..Len(all_files) : all_files[k].file = k
    /\ \A t \in 1..Len(trims) :
         trims[t].outcome = "raise" =>
           \E k \in 1..Len(all_files) :
             /\ all_files[k].file = trims[t].file
             /\ all_files[k].trim_note # None

\* the four cases of resolve_output_path for the file of the current
\* iteration: the computed path and whether it exists
ComputedPath == <<file[1].name, 0>>
Attempted == pc = "done" /\ batch # None /\ batch[1].trim # None /\ WorthTrimming
HandedOut(p) ==
  /\ trims' = Append(trims, trims'[Len(trims')])
  /\ trims'[Len(trims')].output_path = p

\* C29: resolve_output_path never hands out an existing file unless the
\* policy is overwrite.  A computed path that does not exist is returned
\* unchanged; if it exists, 'fail' returns no path (trim_file is not called
\* and the item carries no new path), 'overwrite' returns the same path, and
\* 'rename' returns the path with the smallest suffix _i, i >= 1, that does
\* not exist at that moment.
C29_NoExistingPathUnlessOverwrite ==
  [][Attempted =>
       LET policy == batch[1].on_conflict
       IN /\ ComputedPath \notin fs => HandedOut(ComputedPath)
          /\ ComputedPath \in fs /\ policy = "overwrite" => HandedOut(ComputedPath)
          /\ ComputedPath \in fs /\ policy = "fail" =>
               /\ trims' = trims
               /\ all_files' # all_files
               /\ all_files'[Len(all_files')].new_path = None
               /\ all_files'[Len(all_files')].trim_note # None
          /\ ComputedPath \in fs /\ policy = "rename" =>
               \E n \in 1..(Cardinality(fs) + 1) :
                 /\ HandedOut(<<file[1].name, n>>)
                 /\ <<file[1].name, n>> \notin fs
                 /\ \A m \in 1..(n - 1) : <<file[1].name, m>> \in fs
          /\ trims' # trims /\ policy # "overwrite" =>
               trims'[Len(trims')].output_path \notin fs]_vars

\* a rename that had to go past an existing suffix _1, and an overwrite of
\* an existing file
C29_Witness ==
  /\ trims # <<>> /\ batch # None
  /\ \/ /\ batch[1].on_conflict = "rename"
        /\ \E k \in 1..Len(trims) : trims[k].output_path = <<1, 2>>
     \/ /\ batch[1].on_conflict = "overwrite"
        /\ \E k \in 1..Len(trims) : trims[k].output_path = <<2, 0>>
        /\ <<1, 1>> \in fs

\* C30: for arguments accepted by validate_thresholds (MED_FILE_THRESH_MINS
\* > LONG_ANALYSIS_MINS + 10 among them), every file that analyze_file
\* dispatches to the fixed-end scan has analysis_start = duration -
\* analysis_minutes * 60 strictly greater than 600 seconds: the clamp at 0
\* does not apply and the lecture region is longer than ten minutes.
C30_LongFilesKeepTenMinutes ==
  caller = "analyze_file" /\ scan = "fixed" /\ pc # "fixed_entry" =>
    /\ args # None
    /\ params.analysis_minutes = args[1].long_analysis_mins
    /\ analysis_start =
         duration - args[1].long_analysis_mins * 60 * samples_per_sec
    /\ analysis_start > 600 * samples_per_sec

\* a file of exactly MED_FILE_THRESH_MINS minutes, LONG_ANALYSIS_MINS + 11,
\* has been partitioned by the fixed-end scan with a lecture part
C30_Witness ==
  /\ caller = "analyze_file" /\ scan = "fixed" /\ pc = "fixed_scan"
  /\ duration = args[1].med_file_thresh_mins * 60 * samples_per_sec
  /\ args[1].med_file_thresh_mins = args[1].long_analysis_mins + 11
  /\ analysis_start = 660 * samples_per_sec
  /\ count_lecture > 0

====
